---- MODULE Spec2Model ----
(***************************************************************************)
(* ABIDES configuration generator (configgen.py): the synthesis pipeline   *)
(* of main() -- argument parsing, informational modes, template            *)
(* application, scaling, validation, file naming and the ordered emission  *)
(* of the sections of the generated script -- as a state machine.          *)
(*                                                                         *)
(* Conventions.  An optional value (Python None or a value) is a sequence  *)
(* of length 0 or 1.  Strings that the program parses or rewrites (dates,  *)
(* times, file names) are sequences of one-character strings; strings it   *)
(* only copies (symbol, template name) are TLA+ strings.  The scaling      *)
(* factor is a rational <<num, den>> with den > 0.  Money is counted in    *)
(* CashUnit cents.                                                         *)
(***************************************************************************)
EXTENDS Integers, Sequences, FiniteSets, TLC

(***************************************************************************)
(* Bounds and environment parameters of the model.                         *)
(***************************************************************************)
\* At most this many options are given on one command line.
MaxOptions == 2
\* The calendar year the clock shows when the program runs (datetime.now().year).
CurrentYear == 2026
\* Money is counted in units of CashUnit cents, so that the thresholds of
\* validate_starting_cash fit TLC's integers.
CashUnit == 50000

(***************************************************************************)
(* Program constants.                                                      *)
(***************************************************************************)
DATE_2019_06_28 == <<"2","0","1","9","-","0","6","-","2","8">>
DATE_2020_06_03 == <<"2","0","2","0","-","0","6","-","0","3">>
DATE_2021_02_05 == <<"2","0","2","1","-","0","2","-","0","5">>
TIME_09_30_00 == <<"0","9",":","3","0",":","0","0">>
TIME_16_00_00 == <<"1","6",":","0","0",":","0","0">>
TIME_10_00_00 == <<"1","0",":","0","0",":","0","0">>

DEFAULT_MARKET_DATE == DATE_2019_06_28
DEFAULT_MARKET_OPEN == TIME_09_30_00
DEFAULT_MARKET_CLOSE == TIME_16_00_00
DEFAULT_STARTING_CASH == 10000000 \div CashUnit
DEFAULT_SYMBOL == "JPM"
MAX_FILENAME_LENGTH == 100

\* The six count fields of the argument namespace, in the order in which
\* main() scales and validates them.
AgentTypes ==
    <<"market_makers", "adaptive_market_makers", "zero_intelligence",
      "noise_agents", "value_agents", "momentum_agents">>

AgentTypeSet == {AgentTypes[i] : i \in 1..Len(AgentTypes)}

MarketFields ==
    {"starting_cash", "symbol", "market_date", "market_open", "market_close"}

RESEARCH_TEMPLATES ==
    [rmsc03 |->
        [agents |-> [market_makers |-> 0, adaptive_market_makers |-> 2,
                     value_agents |-> 100, momentum_agents |-> 25,
                     noise_agents |-> 5000, zero_intelligence |-> 0],
         market_params |-> [starting_cash |-> 10000000 \div CashUnit,
                            symbol |-> "ABM",
                            market_date |-> DATE_2020_06_03,
                            market_open |-> TIME_09_30_00,
                            market_close |-> TIME_16_00_00]],
     rmsc04 |->
        [agents |-> [market_makers |-> 0, adaptive_market_makers |-> 2,
                     value_agents |-> 102, momentum_agents |-> 12,
                     noise_agents |-> 1000, zero_intelligence |-> 0],
         market_params |-> [starting_cash |-> 10000000 \div CashUnit,
                            symbol |-> "ABM",
                            market_date |-> DATE_2021_02_05,
                            market_open |-> TIME_09_30_00,
                            market_close |-> TIME_10_00_00]],
     hft |->
        [agents |-> [market_makers |-> 10, adaptive_market_makers |-> 0,
                     zero_intelligence |-> 1000, noise_agents |-> 500,
                     value_agents |-> 0, momentum_agents |-> 0],
         market_params |-> [starting_cash |-> 10000000 \div CashUnit,
                            symbol |-> "JPM"]],
     minimal |->
        [agents |-> [market_makers |-> 1, zero_intelligence |-> 10,
                     noise_agents |-> 5, value_agents |-> 0,
                     momentum_agents |-> 0, adaptive_market_makers |-> 0],
         market_params |-> [starting_cash |-> 1000000 \div CashUnit,
                            symbol |-> "TEST"]],
     behavioral |->
        [agents |-> [market_makers |-> 3, adaptive_market_makers |-> 2,
                     value_agents |-> 50, momentum_agents |-> 75,
                     noise_agents |-> 200, zero_intelligence |-> 100],
         market_params |-> [starting_cash |-> 5000000 \div CashUnit,
                            symbol |-> "BEH"]]]

TemplateNames == DOMAIN RESEARCH_TEMPLATES

(***************************************************************************)
(* Strings as sequences of characters.                                     *)
(***************************************************************************)
Digits == <<"0","1","2","3","4","5","6","7","8","9">>

DigitSet == {Digits[i] : i \in 1..10}

Letters ==
    {"a","b","c","d","e","f","g","h","i","j","k","l","m","n","o","p","q",
     "r","s","t","u","v","w","x","y","z"}

DigitValues == [c \in DigitSet |-> (CHOOSE i \in 1..10 : Digits[i] = c) - 1]

DigitValue(c) == DigitValues[c]

IsDigits(s) == \A i \in 1..Len(s) : s[i] \in DigitSet

RECURSIVE ToInt(_)
ToInt(s) ==
    IF Len(s) = 0 THEN 0
    ELSE 10 * ToInt(SubSeq(s, 1, Len(s) - 1)) + DigitValue(s[Len(s)])

\* str(n) for n >= 0.
RECURSIVE ToStr(_)
ToStr(n) ==
    IF n < 10 THEN <<Digits[n + 1]>>
    ELSE Append(ToStr(n \div 10), Digits[(n % 10) + 1])

\* s.split(sep): the fields of s between the occurrences of sep.
RECURSIVE Split(_, _)
Split(s, sep) ==
    IF \A i \in 1..Len(s) : s[i] # sep THEN <<s>>
    ELSE LET k == CHOOSE i \in 1..Len(s) :
                      s[i] = sep /\ \A j \in 1..(i - 1) : s[j] # sep
         IN  <<SubSeq(s, 1, k - 1)>> \o Split(SubSeq(s, k + 1, Len(s)), sep)

\* A numeric field of strptime: one to `width` digits with value in lo..hi.
NumField(f, width, lo, hi) ==
    /\ Len(f) \in 1..width
    /\ IsDigits(f)
    /\ ToInt(f) \in lo..hi

IsLeapYear(y) == (y % 4 = 0 /\ y % 100 # 0) \/ y % 400 = 0

DaysInMonth(y, m) ==
    IF m = 2 THEN (IF IsLeapYear(y) THEN 29 ELSE 28)
    ELSE IF m \in {4, 6, 9, 11} THEN 30 ELSE 31

\* datetime.strptime(s, "%Y-%m-%d"): <<>> when it raises ValueError, else
\* <<[year, month, day]>>.
\* (f ranges over the one value of the split, so it is split once.)
ParseDate(s) ==
    CHOOSE parsed \in
        {IF /\ Len(f) = 3
            /\ Len(f[1]) = 4 /\ NumField(f[1], 4, 1, 9999)
            /\ NumField(f[2], 2, 1, 12)
            /\ NumField(f[3], 2, 1, 31)
            /\ ToInt(f[3]) <= DaysInMonth(ToInt(f[1]), ToInt(f[2]))
         THEN <<[year |-> ToInt(f[1]), month |-> ToInt(f[2]),
                 day |-> ToInt(f[3])]>>
         ELSE <<>> : f \in {Split(s, "-")}} : TRUE

\* datetime.strptime(s, "%H:%M:%S"): <<>> when it raises ValueError, else
\* <<[hour, minute, second]>>.
ParseTime(s) ==
    CHOOSE parsed \in
        {IF /\ Len(f) = 3
            /\ NumField(f[1], 2, 0, 23)
            /\ NumField(f[2], 2, 0, 59)
            /\ NumField(f[3], 2, 0, 59)
         THEN <<[hour |-> ToInt(f[1]), minute |-> ToInt(f[2]),
                 second |-> ToInt(f[3])]>>
         ELSE <<>> : f \in {Split(s, ":")}} : TRUE

(***************************************************************************)
(* Validators.  Each returns [ok, warn]: ok is FALSE when the validator    *)
(* raises ValueError, warn is the set of warnings it logs.                  *)
(***************************************************************************)
Pass == [ok |-> TRUE, warn |-> {}]
Warn(w) == [ok |-> TRUE, warn |-> {w}]
Raise == [ok |-> FALSE, warn |-> {}]

validate_market_date(date_str) ==
    LET parsed == ParseDate(date_str) IN
    IF parsed = <<>> THEN Raise
    ELSE IF parsed[1].year < 1990 \/ parsed[1].year > CurrentYear + 1 THEN Raise
    ELSE Pass

validate_market_time(time_str, time_type) ==
    LET parsed == ParseTime(time_str) IN
    IF parsed = <<>> THEN Raise
    ELSE IF parsed[1].hour < 4 \/ parsed[1].hour > 22
         THEN Warn(<<"unusual", time_type>>)
         ELSE Pass

\* validate_agent_count with 'count <= 0' for 'count < 0'.
validate_agent_count_RejectsZero(count, agent_type) ==
    IF count <= 0 THEN Raise
    ELSE IF count > 10000 THEN Warn(<<"large", agent_type>>)
    ELSE Pass

\* validate_agent_count raising where it should only warn.
validate_agent_count_RejectsLarge(count, agent_type) ==
    IF count < 0 THEN Raise
    ELSE IF count > 10000 THEN Raise
    ELSE Pass

validate_agent_count(count, agent_type) ==
    IF count < 0 THEN Raise
    ELSE IF count > 10000 THEN Warn(<<"large", agent_type>>)
    ELSE Pass

LOW_CASH == 100000 \div CashUnit
VERY_HIGH_CASH == 10000 * (1000000 \div CashUnit)

validate_starting_cash(cash) ==
    IF cash < 0 THEN Raise
    ELSE IF cash = 0 THEN Warn(<<"zero", "starting_cash">>)
    ELSE IF cash < LOW_CASH THEN Warn(<<"low", "starting_cash">>)
    ELSE IF cash > VERY_HIGH_CASH THEN Warn(<<"high", "starting_cash">>)
    ELSE Pass

\* validate_agents_scale with 'scale < 0' for 'scale <= 0'.
validate_agents_scale_AcceptsZero(scale) ==
    IF scale[1] < 0 THEN Raise
    ELSE IF scale[1] > 10 * scale[2] THEN Warn(<<"large", "agents_scale">>)
    ELSE IF 100 * scale[1] < scale[2] THEN Warn(<<"small", "agents_scale">>)
    ELSE Pass

\* Comparisons of a rational <<num, den>>, den > 0, with the literals of
\* validate_agents_scale.
validate_agents_scale(scale) ==
    IF scale[1] <= 0 THEN Raise
    ELSE IF scale[1] > 10 * scale[2] THEN Warn(<<"large", "agents_scale">>)
    ELSE IF 100 * scale[1] < scale[2] THEN Warn(<<"small", "agents_scale">>)
    ELSE Pass

validate_template_name(template_name) ==
    IF template_name \notin TemplateNames THEN Raise ELSE Pass


(***************************************************************************)
(* Template application and scaling.                                       *)
(***************************************************************************)
\* TemplateCount with a copied line left unedited: value_agents is set
\* from the momentum_agents entry.
TemplateCount_WrongKey(args, agents, t) ==
    IF args[t] = 0 /\ t \in DOMAIN agents
    THEN (IF t = "value_agents" THEN agents["momentum_agents"] ELSE agents[t])
    ELSE args[t]

\* One 'if not args.<t> and <t> in agents' statement.
\* TemplateCount adding the template's count to the one given.
TemplateCount_Adds(args, agents, t) ==
    IF t \in DOMAIN agents THEN args[t] + agents[t] ELSE args[t]

TemplateCount(args, agents, t) ==
    IF args[t] = 0 /\ t \in DOMAIN agents THEN agents[t] ELSE args[t]

\* One 'if args.<f> == DEFAULT and <f> in params' statement.
TemplateParam(args, params, f, default) ==
    IF args[f] = default /\ f \in DOMAIN params THEN params[f] ELSE args[f]

\* (a0 ranges over the one value of args, so it is read once.)
apply_template_to_args(template_name, args) ==
    LET template == RESEARCH_TEMPLATES[template_name]
        agents == template.agents
    IN  CHOOSE applied \in
          {IF "market_params" \in DOMAIN template
           THEN LET params == template.market_params IN
             [a0 EXCEPT
                !.market_makers = TemplateCount(a0, agents, "market_makers"),
                !.adaptive_market_makers =
                    TemplateCount(a0, agents, "adaptive_market_makers"),
                !.zero_intelligence =
                    TemplateCount(a0, agents, "zero_intelligence"),
                !.noise_agents = TemplateCount(a0, agents, "noise_agents"),
                !.value_agents = TemplateCount(a0, agents, "value_agents"),
                !.momentum_agents = TemplateCount(a0, agents, "momentum_agents"),
                !.starting_cash =
                    TemplateParam(a0, params, "starting_cash", DEFAULT_STARTING_CASH),
                !.symbol = TemplateParam(a0, params, "symbol", DEFAULT_SYMBOL),
                !.market_date =
                    TemplateParam(a0, params, "market_date", DEFAULT_MARKET_DATE),
                !.market_open =
                    TemplateParam(a0, params, "market_open", DEFAULT_MARKET_OPEN),
                !.market_close =
                    TemplateParam(a0, params, "market_close", DEFAULT_MARKET_CLOSE)]
           ELSE
             [a0 EXCEPT
                !.market_makers = TemplateCount(a0, agents, "market_makers"),
                !.adaptive_market_makers =
                    TemplateCount(a0, agents, "adaptive_market_makers"),
                !.zero_intelligence =
                    TemplateCount(a0, agents, "zero_intelligence"),
                !.noise_agents = TemplateCount(a0, agents, "noise_agents"),
                !.value_agents = TemplateCount(a0, agents, "value_agents"),
                !.momentum_agents = TemplateCount(a0, agents, "momentum_agents")]
           : a0 \in {args}} : TRUE

\* ScaleCount with round-half-up in place of int().
ScaleCount_Rounds(count, scale) ==
    (2 * count * scale[1] + scale[2]) \div (2 * scale[2])

\* ScaleCount rounding up.
ScaleCount_Ceiling(count, scale) ==
    -((-(count * scale[1])) \div scale[2])

\* int(count * scale): the product truncated toward zero.  The scales of the
\* model are such that the double product count * scale is the exact one
\* or truncates to the same integer.
ScaleCount(count, scale) ==
    LET p == count * scale[1] IN
    IF p >= 0 THEN p \div scale[2] ELSE -((-p) \div scale[2])

\* scale_agent_counts scaling the starting cash with the counts.
scale_agent_counts_ScalesCash(args) ==
    [t \in DOMAIN args |->
        IF t \in AgentTypeSet \cup {"starting_cash"}
        THEN ScaleCount(args[t], args.agents_scale)
        ELSE args[t]]

scale_agent_counts(args) ==
    [t \in DOMAIN args |->
        IF t \in AgentTypeSet THEN ScaleCount(args[t], args.agents_scale)
        ELSE args[t]]

(***************************************************************************)
(* The command line.  argv maps each option given to its value.            *)
(***************************************************************************)
NAME_CFG == <<"c","f","g">>
NAME_SPACED == <<" ","m","y"," ","c","f","g">>
NAME_BANG == <<"c","f","g","!">>
NAME_LONG == [i \in 1..(MAX_FILENAME_LENGTH + 1) |-> "a"]

OptionNames ==
    <<"template", "agents_scale",
      "market_makers", "adaptive_market_makers", "zero_intelligence",
      "noise_agents", "value_agents", "momentum_agents",
      "starting_cash", "symbol", "market_date", "market_open", "market_close",
      "random_seed", "config_name", "output_dir",
      "gym_mode", "batch_mode", "validate_only", "list_templates",
      "template_info", "gui">>

Flags == {"gym_mode", "batch_mode", "validate_only", "list_templates", "gui"}

OptionValues(o) ==
    CASE o = "template" -> TemplateNames \cup {"bogus"}
      [] o = "agents_scale" ->
            {<<1, 2>>, <<1, 10>>, <<1, 256>>, <<16, 1>>, <<0, 1>>, <<-1, 2>>}
      [] o \in AgentTypeSet -> {-1, 0, 3}
      [] o = "starting_cash" ->
            {-1, 0, LOW_CASH - 1, DEFAULT_STARTING_CASH, VERY_HIGH_CASH + 1}
      [] o = "symbol" -> {"JPM", "AAPL"}
      [] o = "market_date" ->
            {DATE_2019_06_28,
             <<"1","9","8","9","-","1","2","-","3","1">>,
             <<"2","0","2","8","-","0","1","-","0","2">>,
             <<"0","6","/","2","8","/","2","0","1","9">>}
      [] o = "market_open" ->
            {TIME_09_30_00, <<"0","3",":","0","0",":","0","0">>,
             <<"9",".","3","0">>}
      [] o = "market_close" ->
            {TIME_16_00_00, <<"2","3",":","3","0",":","0","0">>,
             <<"2","5",":","0","0",":","0","0">>}
      [] o = "random_seed" -> {0, 42}
      [] o = "config_name" -> {NAME_CFG, NAME_SPACED, NAME_BANG, NAME_LONG}
      [] o = "output_dir" -> {"out"}
      [] o = "template_info" -> {"rmsc03", "bogus"}
      [] o \in Flags -> {TRUE}

\* The command lines that give at most n options, all among the first i of
\* `names`.
RECURSIVE CommandLinesOver(_, _, _)
CommandLinesOver(names, i, n) ==
    IF i = 0 \/ n = 0 THEN {<<>>}
    ELSE CommandLinesOver(names, i - 1, n)
         \cup {cl @@ (names[i] :> v) :
                 cl \in CommandLinesOver(names, i - 1, n - 1),
                 v \in OptionValues(names[i])}

ModeSwitches ==
    <<"gym_mode", "batch_mode", "validate_only", "list_templates",
      "template_info", "gui">>

\* The command lines of the model: every one with at most MaxOptions
\* options, every combination of the mode switches, and every combination
\* of a template, a scaling factor and one explicit count.
CommandLines ==
    CommandLinesOver(OptionNames, Len(OptionNames), MaxOptions)
    \cup CommandLinesOver(ModeSwitches, Len(ModeSwitches), Len(ModeSwitches))
    \cup {t @@ s @@ c :
            t \in CommandLinesOver(<<"template">>, 1, 1),
            s \in CommandLinesOver(<<"agents_scale">>, 1, 1),
            c \in CommandLinesOver(AgentTypes, Len(AgentTypes), 1)}

Given(cl, o) == o \in DOMAIN cl

\* argparse: the value of an option, or its default when it is not given.
Opt(cl, o, default) == IF Given(cl, o) THEN cl[o] ELSE default

\* parser.parse_args(): the argument namespace.
parse_args(cl) ==
    [gui |-> Opt(cl, "gui", FALSE),
     validate_only |-> Opt(cl, "validate_only", FALSE),
     output_dir |-> Opt(cl, "output_dir", "."),
     config_name |-> IF Given(cl, "config_name") THEN <<cl["config_name"]>> ELSE <<>>,
     random_seed |-> IF Given(cl, "random_seed") THEN <<cl["random_seed"]>> ELSE <<>>,
     market_date |-> Opt(cl, "market_date", DEFAULT_MARKET_DATE),
     market_open |-> Opt(cl, "market_open", DEFAULT_MARKET_OPEN),
     market_close |-> Opt(cl, "market_close", DEFAULT_MARKET_CLOSE),
     symbol |-> Opt(cl, "symbol", DEFAULT_SYMBOL),
     template |-> IF Given(cl, "template") THEN <<cl["template"]>> ELSE <<>>,
     list_templates |-> Opt(cl, "list_templates", FALSE),
     template_info |->
        IF Given(cl, "template_info") THEN <<cl["template_info"]>> ELSE <<>>,
     starting_cash |-> Opt(cl, "starting_cash", DEFAULT_STARTING_CASH),
     market_makers |-> Opt(cl, "market_makers", 0),
     adaptive_market_makers |-> Opt(cl, "adaptive_market_makers", 0),
     zero_intelligence |-> Opt(cl, "zero_intelligence", 0),
     noise_agents |-> Opt(cl, "noise_agents", 0),
     value_agents |-> Opt(cl, "value_agents", 0),
     momentum_agents |-> Opt(cl, "momentum_agents", 0),
     gym_mode |-> Opt(cl, "gym_mode", FALSE),
     batch_mode |-> Opt(cl, "batch_mode", FALSE),
     agents_scale |-> Opt(cl, "agents_scale", <<1, 1>>)]

\* argparse rejects a --template outside its choices (SystemExit, status 2).
parse_args_accepts(cl) ==
    Given(cl, "template") => cl["template"] \in TemplateNames


(***************************************************************************)
(* File names.                                                             *)
(***************************************************************************)
Whitespace == {" ", "\t", "\n"}

\* The character class of the re.sub in validate_config_filename.
SanitizedChars == {"<", ">", ":", "\"", "/", "\\", "|", "?", "*"} \cup Whitespace

\* str.strip()
RECURSIVE Strip(_)
Strip(s) ==
    IF Len(s) = 0 THEN s
    ELSE IF s[1] \in Whitespace THEN Strip(Tail(s))
    ELSE IF s[Len(s)] \in Whitespace THEN Strip(SubSeq(s, 1, Len(s) - 1))
    ELSE s

\* re.sub(r'[<>:"/\\|?*\s]+', '_', s): every maximal run of characters of
\* the class becomes one underscore.
Dropped == ""

IsKept(c) == c # Dropped

ReSub(s) ==
    SelectSeq([i \in 1..Len(s) |->
                  IF s[i] \notin SanitizedChars THEN s[i]
                  ELSE IF i < Len(s) /\ s[i + 1] \in SanitizedChars
                       THEN Dropped
                       ELSE "_"],
              IsKept)

\* str.replace(old, new) for one-character old and new.
Replace(s, old, new) == [i \in 1..Len(s) |-> IF s[i] = old THEN new ELSE s[i]]

\* str.isalnum()
AlnumChars == Letters \cup DigitSet

IsAlnum(s) == Len(s) > 0 /\ \A i \in 1..Len(s) : s[i] \in AlnumChars

\* str.endswith(suffix)
EndsWith(s, suffix) ==
    Len(s) >= Len(suffix)
    /\ SubSeq(s, Len(s) - Len(suffix) + 1, Len(s)) = suffix

DOT_PY == <<".", "p", "y">>

\* validate_config_filename(filename): [raised, value]; raised when it
\* raises ValueError, value = <<>> when it returns None.  (cleaned and
\* sanitized range over the one value of the strip and of the
\* substitution, so each is computed once.)
validate_config_filename(filename) ==
    IF filename = <<>> \/ filename = <<<<>>>>
    THEN [raised |-> FALSE, value |-> <<>>]
    ELSE CHOOSE validated \in
           {IF Len(cleaned) > MAX_FILENAME_LENGTH
            THEN [raised |-> TRUE, value |-> <<>>]
            ELSE IF ~IsAlnum(Replace(Replace(sanitized, "_", "a"), "-", "a"))
            THEN [raised |-> TRUE, value |-> <<>>]
            ELSE IF ~EndsWith(sanitized, DOT_PY)
            THEN [raised |-> FALSE, value |-> <<sanitized \o DOT_PY>>]
            ELSE [raised |-> FALSE, value |-> <<sanitized>>]
            : <<cleaned, sanitized>> \in
                  {<<stripped, ReSub(stripped)>> :
                      stripped \in {Strip(filename[1])}}} : TRUE

TemplateChars ==
    [rmsc03 |-> <<"r","m","s","c","0","3">>,
     rmsc04 |-> <<"r","m","s","c","0","4">>,
     hft |-> <<"h","f","t">>,
     minimal |-> <<"m","i","n","i","m","a","l">>,
     behavioral |-> <<"b","e","h","a","v","i","o","r","a","l">>]

\* datetime.now().strftime('%Y%m%d_%H%M%S') at one reading of the clock.
Timestamp ==
    ToStr(CurrentYear) \o <<"1","1","0","2","_","1","2","0","0","0","0">>

TotalAgents(args) ==
    args.market_makers + args.adaptive_market_makers + args.zero_intelligence
    + args.noise_agents + args.value_agents + args.momentum_agents

\* The name main() makes up when no --config-name is given.
auto_config_name(args) ==
    IF args.template # <<>>
    THEN <<"a","b","i","d","e","s","_">> \o TemplateChars[args.template[1]]
         \o <<"_">> \o ToStr(TotalAgents(args))
         \o <<"a","g","e","n","t","s","_">> \o Timestamp
    ELSE <<"a","b","i","d","e","s","_","c","o","n","f","i","g","_">>
         \o ToStr(TotalAgents(args))
         \o <<"a","g","e","n","t","s","_">> \o Timestamp

(***************************************************************************)
(* Section generators: the text block each one writes, as a record.        *)
(***************************************************************************)
\* datetime.now() as generate_imports_section reads it, to the second:
\* <<year, month, day, hour, minute, second>>.
Instants ==
    {<<CurrentYear, 11, 2, 12, 0, 0>>, <<CurrentYear, 11, 2, 12, 0, 1>>}

generate_imports_section(path, now) ==
    [name |-> "imports", gen |-> "current", generated_on |-> now,
     run_hint |-> path.name]

\* Integers beyond 2^31 are written in base 2^16, most significant digit
\* first.
Base == 65536

\* int(time.time() * 1000000) as generate_config_section can read it: four
\* digits.  The first reading is a multiple of 2^32 - 1, the second is one
\* microsecond before it.
MicrosecondClock ==
    {<<6, 24254, 65529, 41281>>, <<6, 24254, 65529, 41280>>}

\* n in two digits.
Limbs(n) == <<n \div Base, n % Base>>

\* v + 1 for a two-digit v.
Increment(v) ==
    IF v[2] + 1 = Base THEN <<v[1] + 1, 0>> ELSE <<v[1], v[2] + 1>>

\* t % (2**32 - 1) for a four-digit t, in two digits: t = A * 2^32 + B is
\* congruent to A + B, and A + B = 2^32 + r to r + 1.
TimeSeed(t) ==
    LET lo == (t[2] + t[4]) % Base
        hi == t[1] + t[3] + (t[2] + t[4]) \div Base
        folded == IF hi >= Base THEN Increment(<<hi - Base, lo>>)
                  ELSE <<hi, lo>>
    IN  IF folded = <<Base - 1, Base - 1>> THEN <<0, 0>> ELSE folded

\* generate_config_section with 'if not seed' for 'if seed is None'.
generate_config_section_Falsy(seed, time) ==
    [name |-> "config", gen |-> "current",
     seed |-> IF seed = <<>> \/ seed = <<0>> THEN TimeSeed(time)
              ELSE Limbs(seed[1])]

\* generate_config_section seeding from the clock whatever seed is given.
generate_config_section_ClockOnly(seed, time) ==
    [name |-> "config", gen |-> "current", seed |-> TimeSeed(time)]

\* The section holds the seed it embeds, in two digits.
generate_config_section(seed, time) ==
    [name |-> "config", gen |-> "current",
     seed |-> IF seed = <<>> THEN TimeSeed(time) ELSE Limbs(seed[1])]

\* generate_oracle_section writing the default symbol.
generate_oracle_section_DefaultSymbol(market_date, market_open, market_close, symbol) ==
    [name |-> "oracle", gen |-> "current",
     historical_date |-> market_date, mkt_open |-> market_open,
     mkt_close |-> market_close, symbol |-> DEFAULT_SYMBOL]

generate_oracle_section(market_date, market_open, market_close, symbol) ==
    [name |-> "oracle", gen |-> "current",
     historical_date |-> market_date, mkt_open |-> market_open,
     mkt_close |-> market_close, symbol |-> symbol]

\* Block without the 'if <count> > 0' test.
Block_Unconditional(type, count) == <<[type |-> type, count |-> count]>>

\* One 'if <count> > 0: agents += ...' statement.
Block(type, count) ==
    IF count > 0 THEN <<[type |-> type, count |-> count]>> ELSE <<>>

\* generate_agents_section with the running counter left at 0 after the
\* Exchange agent.
generate_agents_section_CountFromZero(starting_cash, market_maker_count, adaptive_market_maker_count, zero_intelligence_count, noise_agent_count, value_agent_count, momentum_agent_count) ==
    [name |-> "agents", gen |-> "current",
     starting_cash |-> starting_cash,
     total_trading_agents |->
        market_maker_count + adaptive_market_maker_count
        + zero_intelligence_count + noise_agent_count
        + value_agent_count + momentum_agent_count,
     exchange |-> [type |-> "ExchangeAgent", id |-> 0],
     agent_count |-> 0,
     blocks |->
        Block("MarketMakerAgent", market_maker_count)
        \o Block("ZeroIntelligenceAgent", zero_intelligence_count)
        \o Block("NoiseAgent", noise_agent_count)
        \o Block("ValueAgent", value_agent_count)
        \o Block("MomentumAgent", momentum_agent_count)
        \o Block("AdaptiveMarketMakerAgent", adaptive_market_maker_count)]

\* generate_agents_section with the Adaptive Market Maker block second.
generate_agents_section_AdaptiveSecond(starting_cash, market_maker_count, adaptive_market_maker_count, zero_intelligence_count, noise_agent_count, value_agent_count, momentum_agent_count) ==
    [name |-> "agents", gen |-> "current",
     starting_cash |-> starting_cash,
     total_trading_agents |->
        market_maker_count + adaptive_market_maker_count
        + zero_intelligence_count + noise_agent_count
        + value_agent_count + momentum_agent_count,
     exchange |-> [type |-> "ExchangeAgent", id |-> 0],
     agent_count |-> 1,
     blocks |->
        Block("MarketMakerAgent", market_maker_count)
        \o Block("AdaptiveMarketMakerAgent", adaptive_market_maker_count)
        \o Block("ZeroIntelligenceAgent", zero_intelligence_count)
        \o Block("NoiseAgent", noise_agent_count)
        \o Block("ValueAgent", value_agent_count)
        \o Block("MomentumAgent", momentum_agent_count)]

\* generate_agents_section leaving the market makers out of the total.
generate_agents_section_TotalWithoutMakers(starting_cash, market_maker_count, adaptive_market_maker_count, zero_intelligence_count, noise_agent_count, value_agent_count, momentum_agent_count) ==
    [name |-> "agents", gen |-> "current",
     starting_cash |-> starting_cash,
     total_trading_agents |->
        adaptive_market_maker_count
        + zero_intelligence_count + noise_agent_count
        + value_agent_count + momentum_agent_count,
     exchange |-> [type |-> "ExchangeAgent", id |-> 0],
     agent_count |-> 1,
     blocks |->
        Block("MarketMakerAgent", market_maker_count)
        \o Block("ZeroIntelligenceAgent", zero_intelligence_count)
        \o Block("NoiseAgent", noise_agent_count)
        \o Block("ValueAgent", value_agent_count)
        \o Block("MomentumAgent", momentum_agent_count)
        \o Block("AdaptiveMarketMakerAgent", adaptive_market_maker_count)]

generate_agents_section(starting_cash, market_maker_count, adaptive_market_maker_count, zero_intelligence_count, noise_agent_count, value_agent_count, momentum_agent_count) ==
    [name |-> "agents", gen |-> "current",
     starting_cash |-> starting_cash,
     total_trading_agents |->
        market_maker_count + adaptive_market_maker_count
        + zero_intelligence_count + noise_agent_count
        + value_agent_count + momentum_agent_count,
     exchange |-> [type |-> "ExchangeAgent", id |-> 0],
     agent_count |-> 1,
     blocks |->
        Block("MarketMakerAgent", market_maker_count)
        \o Block("ZeroIntelligenceAgent", zero_intelligence_count)
        \o Block("NoiseAgent", noise_agent_count)
        \o Block("ValueAgent", value_agent_count)
        \o Block("MomentumAgent", momentum_agent_count)
        \o Block("AdaptiveMarketMakerAgent", adaptive_market_maker_count)]

generate_kernel_section == [name |-> "kernel", gen |-> "current"]

generate_gym_config_section == [name |-> "gym", gen |-> "current"]

(***************************************************************************)
(* The names of the generated script.  The text of a section is fixed but  *)
(* for the values above, and so are the names it binds and reads.          *)
(***************************************************************************)
\* The names a section binds at module scope when the script runs.  The
\* noise block binds two names of its own; the kernel section binds
\* run_simulation and, under 'if __name__ == "__main__"', three more.
Globals(section) ==
    CASE section.name = "imports" ->
            {"argparse", "np", "pd", "dt", "logging", "Kernel", "util",
             "str_to_ns", "SparseMeanRevertingOracle", "LatencyModel",
             "ExchangeAgent", "NoiseAgent", "ValueAgent",
             "ZeroIntelligenceAgent", "MarketMakerAgent", "MomentumAgent",
             "AdaptiveMarketMakerAgent"}
      [] section.name = "config" ->
            {"parser", "args", "remaining_args", "log_dir", "seed",
             "log_level", "simulation_start_time"}
      [] section.name = "oracle" ->
            {"historical_date", "symbol", "mkt_open", "mkt_close",
             "trading_duration", "symbols", "oracle"}
      [] section.name = "agents" ->
            {"agent_count", "agents", "starting_cash", "total_trading_agents"}
            \cup (IF \E i \in 1..Len(section.blocks) :
                        section.blocks[i].type = "NoiseAgent"
                  THEN {"noise_mkt_open", "noise_mkt_close"} ELSE {})
      [] section.name = "kernel" ->
            {"run_simulation", "success", "simulation_end_time", "duration"}
      [] section.name = "gym" ->
            {"create_background_config", "background_config"}

\* The names bound inside run_simulation(), which the kernel section
\* defines: they are local to the function.
KernelLocals ==
    {"config_name", "kernel", "kernel_start_time", "kernel_stop_time",
     "default_computation_delay", "latency_rstate", "nyc_to_seattle_meters",
     "pairwise_distances", "pairwise_latencies", "model_args",
     "latency_model"}

\* The name whose value run_simulation() hands to the latency model as the
\* number of agents.
LatencyAgents == "agent_count"

\* The names looked up by 'background_config = create_background_config()',
\* which the Gym section runs at module level.
GymReads ==
    {"kernel_start_time", "kernel_stop_time", "agents", "latency_model",
     "default_computation_delay", "oracle"}


(***************************************************************************)
(* State.                                                                  *)
(***************************************************************************)
VARIABLES
    argv,                \* the command line of this invocation
    args,                \* the argument namespace main() works on
    pc,                  \* the position in main()
    exit_status,         \* <<>> while running, <<n>> once the process exited
    error,               \* the error the run reported, "" if none
    warnings,            \* the warnings the validators logged
    checked,             \* the checks evaluated so far, in order
    output_config_file,  \* the global: <<>> or <<[dir, name]>>
    dir_exists,          \* the output directory exists
    file,                \* the artifact at the target path: <<>> or <<sections>>
    found,               \* the file as this invocation found it when it started
    effects              \* what this invocation did to the file system, in order

vars ==
    <<argv, args, pc, exit_status, error, warnings, checked,
      output_config_file, dir_exists, file, found, effects>>

\* What a later invocation finds of a file that an earlier one left at the
\* target path.  The program never reads the file, so its content is one
\* block marked "previous"; `whole` tells whether the invocation that wrote
\* it ended with status 0.
PreviousFile(whole) ==
    <<<<[name |-> "leftover", gen |-> "previous", whole |-> whole]>>>>

IsPrevious(f) == f # <<>> /\ Len(f[1]) = 1 /\ f[1][1].gen = "previous"

Aged(f, status) ==
    IF f = <<>> \/ IsPrevious(f) THEN f ELSE PreviousFile(status = <<0>>)

Fresh(cl) ==
    /\ argv = cl
    /\ args = <<>>
    /\ pc = "parse_args"
    /\ exit_status = <<>>
    /\ error = ""
    /\ warnings = {}
    /\ checked = <<>>
    /\ output_config_file = <<>>
    /\ effects = <<>>

Init ==
    /\ \E cl \in CommandLines : Fresh(cl)
    /\ dir_exists \in BOOLEAN
    /\ (~Given(argv, "output_dir")) => dir_exists
    /\ file = <<>>
    /\ found = <<>>

\* 'return status' (or SystemExit) with the error logged before it.
Exit(status, message) ==
    /\ pc' = "exited"
    /\ exit_status' = <<status>>
    /\ error' = message

Goto(label) ==
    /\ pc' = label
    /\ UNCHANGED <<exit_status, error>>

(***************************************************************************)
(* main(), statement by statement.                                         *)
(***************************************************************************)
ParseArgs ==
    /\ pc = "parse_args"
    /\ IF parse_args_accepts(argv)
       THEN /\ args' = parse_args(argv)
            /\ Goto("info_requests")
       ELSE /\ Exit(2, "argparse")
            /\ UNCHANGED args
    /\ UNCHANGED <<argv, warnings, checked, output_config_file, dir_exists,
                   file, found, effects>>

\* show_template_info(template_name): what it reports, "template_not_found"
\* for a name that is not a key of RESEARCH_TEMPLATES; it returns None
\* either way.
show_template_info(template_name) ==
    IF template_name \notin TemplateNames THEN "template_not_found" ELSE ""

\* InfoRequests answering --list-templates only.
InfoRequests_ListOnly ==
    /\ pc = "info_requests"
    /\ IF args.list_templates THEN Exit(0, "")
       ELSE Goto("special_modes")
    /\ UNCHANGED <<argv, args, warnings, checked, output_config_file,
                   dir_exists, file, found, effects>>

\* --list-templates and --template-info print and return 0.
InfoRequests ==
    /\ pc = "info_requests"
    /\ IF args.list_templates THEN Exit(0, "")
       ELSE IF args.template_info # <<>>
            THEN Exit(0, show_template_info(args.template_info[1]))
       ELSE Goto("special_modes")
    /\ UNCHANGED <<argv, args, warnings, checked, output_config_file,
                   dir_exists, file, found, effects>>

\* gui_placeholder(): 1 when tkinter is missing, else 0.
gui_placeholder(gui_available) == IF ~gui_available THEN 1 ELSE 0

\* SpecialModes with the batch placeholder tested before the conflict.
SpecialModes_BatchFirst ==
    /\ pc = "special_modes"
    /\ IF args.batch_mode THEN Exit(0, "")
       ELSE IF args.gym_mode /\ args.batch_mode THEN Exit(1, "mode_conflict")
       ELSE IF args.gui
            THEN \E GUI_AVAILABLE \in BOOLEAN :
                    Exit(gui_placeholder(GUI_AVAILABLE), "")
       ELSE Goto("apply_template")
    /\ UNCHANGED <<argv, args, warnings, checked, output_config_file,
                   dir_exists, file, found, effects>>

SpecialModes ==
    /\ pc = "special_modes"
    /\ IF args.gym_mode /\ args.batch_mode THEN Exit(1, "mode_conflict")
       ELSE IF args.batch_mode THEN Exit(0, "")
       ELSE IF args.gui
            THEN \E GUI_AVAILABLE \in BOOLEAN :
                    Exit(gui_placeholder(GUI_AVAILABLE), "")
       ELSE Goto("apply_template")
    /\ UNCHANGED <<argv, args, warnings, checked, output_config_file,
                   dir_exists, file, found, effects>>

ApplyTemplate ==
    /\ pc = "apply_template"
    /\ IF args.template # <<>>
       THEN /\ checked' = Append(checked, "template")
            /\ IF validate_template_name(args.template[1]).ok
               THEN /\ args' = apply_template_to_args(args.template[1], args)
                    /\ Goto("apply_scaling")
               ELSE /\ Exit(1, "template_error")
                    /\ UNCHANGED args
       ELSE /\ Goto("apply_scaling")
            /\ UNCHANGED <<args, checked>>
    /\ UNCHANGED <<argv, warnings, output_config_file, dir_exists, file, found, effects>>

ApplyScaling ==
    /\ pc = "apply_scaling"
    /\ IF args.agents_scale[1] # args.agents_scale[2]
       THEN LET v == validate_agents_scale(args.agents_scale) IN
            /\ checked' = Append(checked, "agents_scale")
            /\ warnings' = warnings \cup v.warn
            /\ IF v.ok
               THEN /\ args' = scale_agent_counts(args)
                    /\ Goto("validate_inputs")
               ELSE /\ Exit(1, "scaling_error")
                    /\ UNCHANGED args
       ELSE /\ Goto("validate_inputs")
            /\ UNCHANGED <<args, checked, warnings>>
    /\ UNCHANGED <<argv, output_config_file, dir_exists, file, found, effects>>

\* The calls of the 'Validate all inputs' block, in order.
CheckNames ==
    <<"market_date", "market_open", "market_close", "market_makers",
      "adaptive_market_makers", "zero_intelligence", "noise_agents",
      "value_agents", "momentum_agents", "starting_cash">>

\* The i-th call of the block and what it does.
InputCheck(a, i) ==
    CASE i = 1 -> validate_market_date(a.market_date)
      [] i = 2 -> validate_market_time(a.market_open, "market open time")
      [] i = 3 -> validate_market_time(a.market_close, "market close time")
      [] i = 4 -> validate_agent_count(a.market_makers, "Market Maker agents")
      [] i = 5 -> validate_agent_count(a.adaptive_market_makers,
                                       "Adaptive Market Maker agents")
      [] i = 6 -> validate_agent_count(a.zero_intelligence,
                                       "Zero Intelligence agents")
      [] i = 7 -> validate_agent_count(a.noise_agents, "Noise agents")
      [] i = 8 -> validate_agent_count(a.value_agents, "Value agents")
      [] i = 9 -> validate_agent_count(a.momentum_agents, "Momentum agents")
      [] i = 10 -> validate_starting_cash(a.starting_cash)

\* The calls that are made, from the i-th on: up to the first that raises,
\* or all of them.
RECURSIVE ChecksRunFrom(_, _)
ChecksRunFrom(a, i) ==
    IF i = Len(CheckNames) \/ ~InputCheck(a, i).ok THEN i
    ELSE ChecksRunFrom(a, i + 1)

ChecksRun(a) == ChecksRunFrom(a, 1)

\* ValidateInputs with the existing file cleared before the checks.
ValidateInputs_ClearsFirst ==
    /\ pc = "validate_inputs"
    /\ \E n \in {ChecksRun(args)} :
          /\ checked' = checked \o SubSeq(CheckNames, 1, n)
          /\ warnings' = warnings \cup UNION {InputCheck(args, i).warn : i \in 1..n}
          /\ IF InputCheck(args, n).ok THEN Goto("set_filename")
             ELSE Exit(1, "validation_error")
    /\ IF file # <<>>
       THEN /\ file' = <<>>
            /\ effects' = Append(effects, "remove")
       ELSE UNCHANGED <<file, effects>>
    /\ UNCHANGED <<argv, args, output_config_file, dir_exists, found>>

\* ValidateInputs making all the calls whatever they raise.
ValidateInputs_RunsAll ==
    /\ pc = "validate_inputs"
    /\ \E n \in {ChecksRun(args)} :
          /\ checked' = checked \o CheckNames
          /\ warnings' = warnings \cup UNION {InputCheck(args, i).warn : i \in 1..n}
          /\ IF InputCheck(args, n).ok THEN Goto("set_filename")
             ELSE Exit(1, "validation_error")
    /\ UNCHANGED <<argv, args, output_config_file, dir_exists, file, found, effects>>

ValidateInputs ==
    /\ pc = "validate_inputs"
    /\ \E n \in {ChecksRun(args)} :
          /\ checked' = checked \o SubSeq(CheckNames, 1, n)
          /\ warnings' = warnings \cup UNION {InputCheck(args, i).warn : i \in 1..n}
          /\ IF InputCheck(args, n).ok THEN Goto("set_filename")
             ELSE Exit(1, "validation_error")
    /\ UNCHANGED <<argv, args, output_config_file, dir_exists, file, found, effects>>

SetFilename ==
    /\ pc = "set_filename"
    /\ LET named == IF args.config_name = <<>> \/ args.config_name = <<<<>>>>
                    THEN [args EXCEPT !.config_name = <<auto_config_name(args)>>]
                    ELSE args
           validated_filename == validate_config_filename(named.config_name)
       IN  /\ args' = named
           /\ checked' = Append(checked, "filename")
           /\ IF validated_filename.raised THEN Exit(1, "filename_error")
              ELSE IF validated_filename.value = <<>> THEN Exit(1, "invalid_name")
              ELSE Goto("set_output_path")
    /\ UNCHANGED <<argv, warnings, output_config_file, dir_exists, file, found, effects>>

\* SetOutputPath binding the name as given instead of the validated one.
SetOutputPath_RawName ==
    /\ pc = "set_output_path"
    /\ output_config_file' =
           <<[dir |-> args.output_dir, name |-> args.config_name[1]]>>
    /\ IF args.output_dir # "." /\ ~dir_exists
       THEN /\ dir_exists' = TRUE
            /\ effects' = Append(effects, "mkdir")
       ELSE UNCHANGED <<dir_exists, effects>>
    /\ Goto("validate_only")
    /\ UNCHANGED <<argv, args, warnings, checked, file, found>>

\* 'Set up output file path': mkdir(parents=True, exist_ok=True) and the
\* binding of the global.
SetOutputPath ==
    /\ pc = "set_output_path"
    /\ LET validated_filename == validate_config_filename(args.config_name).value[1]
       IN  output_config_file' =
               <<[dir |-> args.output_dir, name |-> validated_filename]>>
    /\ IF args.output_dir # "." /\ ~dir_exists
       THEN /\ dir_exists' = TRUE
            /\ effects' = Append(effects, "mkdir")
       ELSE UNCHANGED <<dir_exists, effects>>
    /\ Goto("validate_only")
    /\ UNCHANGED <<argv, args, warnings, checked, file, found>>

ValidateOnly ==
    /\ pc = "validate_only"
    /\ IF args.validate_only THEN Exit(0, "") ELSE Goto("clear_existing")
    /\ UNCHANGED <<argv, args, warnings, checked, output_config_file,
                   dir_exists, file, found, effects>>

\* ClearExisting without the removal.
ClearExisting_KeepsFile ==
    /\ pc = "clear_existing"
    /\ Goto("imports")
    /\ UNCHANGED <<argv, args, warnings, checked, output_config_file,
                   dir_exists, file, found, effects>>

\* 'if os.path.exists(output_config_file): os.remove(output_config_file)'
ClearExisting ==
    /\ pc = "clear_existing"
    /\ IF file # <<>>
       THEN /\ file' = <<>>
            /\ effects' = Append(effects, "remove")
       ELSE UNCHANGED <<file, found, effects>>
    /\ Goto("imports")
    /\ UNCHANGED <<argv, args, warnings, checked, output_config_file,
                   dir_exists, found>>

\* Write removing the file when the append fails.
Write_RollsBack(content, next) ==
    IF output_config_file = <<>>
    THEN /\ Exit(1, "write_error")
         /\ UNCHANGED <<file, effects>>
    ELSE \/ /\ file' = <<(IF file = <<>> THEN <<>> ELSE file[1]) \o <<content>>>>
            /\ effects' = Append(effects, content.name)
            /\ IF next = "return" THEN Exit(0, "") ELSE Goto(next)
         \/ /\ Exit(1, "write_error")
            /\ file' = <<>>
            /\ UNCHANGED effects

\* write_to_config_file(content) called from a generator: the append, or
\* the RuntimeError (no output file bound, or the IOError of open/write)
\* that the last handler of main() turns into exit status 1.
Write(content, next) ==
    IF output_config_file = <<>>
    THEN /\ Exit(1, "write_error")
         /\ UNCHANGED <<file, effects>>
    ELSE \/ /\ file' = <<(IF file = <<>> THEN <<>> ELSE file[1]) \o <<content>>>>
            /\ effects' = Append(effects, content.name)
            /\ IF next = "return" THEN Exit(0, "") ELSE Goto(next)
         \/ /\ Exit(1, "write_error")
            /\ UNCHANGED <<file, effects>>

GenerateImports ==
    /\ pc = "imports"
    /\ \E now \in Instants :
          Write(generate_imports_section(output_config_file[1], now), "config")
    /\ UNCHANGED <<argv, args, warnings, checked, output_config_file,
                   dir_exists, found>>

GenerateConfig ==
    /\ pc = "config"
    /\ \E time \in MicrosecondClock :
          Write(generate_config_section(args.random_seed, time), "oracle")
    /\ UNCHANGED <<argv, args, warnings, checked, output_config_file,
                   dir_exists, found>>

GenerateOracle ==
    /\ pc = "oracle"
    /\ Write(generate_oracle_section(args.market_date, args.market_open,
                                     args.market_close, args.symbol), "agents")
    /\ UNCHANGED <<argv, args, warnings, checked, output_config_file,
                   dir_exists, found>>

GenerateAgents ==
    /\ pc = "agents"
    /\ Write(generate_agents_section(args.starting_cash, args.market_makers,
                                     args.adaptive_market_makers,
                                     args.zero_intelligence, args.noise_agents,
                                     args.value_agents, args.momentum_agents),
             "kernel")
    /\ UNCHANGED <<argv, args, warnings, checked, output_config_file,
                   dir_exists, found>>

\* GenerateKernel going on to the Gym layer whatever the flag.
GenerateKernel_AlwaysGym ==
    /\ pc = "kernel"
    /\ Write(generate_kernel_section, "gym")
    /\ UNCHANGED <<argv, args, warnings, checked, output_config_file,
                   dir_exists, found>>

GenerateKernel ==
    /\ pc = "kernel"
    /\ Write(generate_kernel_section, IF args.gym_mode THEN "gym" ELSE "return")
    /\ UNCHANGED <<argv, args, warnings, checked, output_config_file,
                   dir_exists, found>>

GenerateGym ==
    /\ pc = "gym"
    /\ Write(generate_gym_config_section, "return")
    /\ UNCHANGED <<argv, args, warnings, checked, output_config_file,
                   dir_exists, found>>

\* The process ends: its memory is gone, the file system stays.  What is
\* kept of argv is where the output goes, for the next invocation.
TargetOptions == {"config_name", "output_dir"}

Terminate ==
    /\ pc = "exited"
    /\ pc' = "terminated"
    /\ argv' = [o \in DOMAIN argv \cap TargetOptions |-> argv[o]]
    /\ args' = <<>>
    /\ exit_status' = <<>>
    /\ error' = ""
    /\ warnings' = {}
    /\ checked' = <<>>
    /\ output_config_file' = <<>>
    /\ effects' = <<>>
    /\ file' = Aged(file, exit_status)
    /\ found' = Aged(file, exit_status)
    /\ UNCHANGED dir_exists

\* The program is run again for the same target path (the same
\* --config-name and --output-dir), with any other options.
SameTarget(cl1, cl2) ==
    \A o \in TargetOptions :
        /\ Given(cl1, o) <=> Given(cl2, o)
        /\ Given(cl1, o) => cl1[o] = cl2[o]

RunAgain ==
    /\ pc = "terminated"
    /\ \E cl \in CommandLines :
          /\ SameTarget(argv, cl)
          /\ argv' = cl
    /\ pc' = "parse_args"
    /\ UNCHANGED <<args, exit_status, error, warnings, checked,
                   output_config_file, dir_exists, file, found, effects>>

Next ==
    \/ ParseArgs
    \/ InfoRequests
    \/ SpecialModes
    \/ ApplyTemplate
    \/ ApplyScaling
    \/ ValidateInputs
    \/ SetFilename
    \/ SetOutputPath
    \/ ValidateOnly
    \/ ClearExisting
    \/ GenerateImports
    \/ GenerateConfig
    \/ GenerateOracle
    \/ GenerateAgents
    \/ GenerateKernel
    \/ GenerateGym
    \/ Terminate
    \/ RunAgain

Spec == Init /\ [][Next]_vars


(***************************************************************************)
(* Properties.                                                             *)
(***************************************************************************)
CountFields == AgentTypeSet

ResolvedFields == CountFields \cup MarketFields

BuiltinDefault ==
    [starting_cash |-> DEFAULT_STARTING_CASH, symbol |-> DEFAULT_SYMBOL,
     market_date |-> DEFAULT_MARKET_DATE, market_open |-> DEFAULT_MARKET_OPEN,
     market_close |-> DEFAULT_MARKET_CLOSE]

\* The template of the command line has been applied and scaling is next.
TemplateApplied == pc = "apply_scaling" /\ Given(argv, "template")

\* C1 (as stated): with a template selected, every field the caller gave
\* on the command line has, before scaling, the caller's value -- a count
\* of 0 and a value equal to the built-in default included.
C1_ExplicitValuesWin ==
    TemplateApplied =>
        \A f \in ResolvedFields : Given(argv, f) => args[f] = argv[f]

\* C2: with a template, no explicit count or market parameter and no
\* scaling factor, resolution ends with exactly the template's six counts
\* and its declared market parameters; the market parameters it does not
\* declare keep their built-in defaults.
NoOverrides(cl) == \A f \in ResolvedFields : ~Given(cl, f)

C2_TemplateReproduced ==
    (/\ pc = "validate_inputs"
     /\ Given(argv, "template")
     /\ NoOverrides(argv)
     /\ ~Given(argv, "agents_scale"))
    => LET T == RESEARCH_TEMPLATES[argv["template"]] IN
       /\ \A t \in CountFields : args[t] = T.agents[t]
       /\ \A f \in MarketFields :
             args[f] = IF f \in DOMAIN T.market_params
                       THEN T.market_params[f]
                       ELSE BuiltinDefault[f]

C2_Witness ==
    /\ pc = "validate_inputs"
    /\ argv = ("template" :> "hft")
    /\ args.zero_intelligence = 1000
    /\ args.symbol = "JPM"
    /\ args.market_date = DEFAULT_MARKET_DATE

SectionNames == {"imports", "config", "oracle", "agents", "kernel", "gym"}

IsSection(e) == e \in SectionNames

\* The sections this invocation appended, in the order of the appends.
Appended == SelectSeq(effects, IsSection)

Happened(e) == \E i \in 1..Len(effects) : effects[i] = e

\* Nothing at the target path was removed or written by this invocation.
ArtifactUntouched ==
    /\ ~Happened("remove")
    /\ Appended = <<>>
    /\ file = found

ExpectedSections(gym_mode) ==
    <<"imports", "config", "oracle", "agents", "kernel">>
    \o (IF gym_mode THEN <<"gym">> ELSE <<>>)

IsPrefix(s, t) == Len(s) <= Len(t) /\ \A i \in 1..Len(s) : s[i] = t[i]

\* The file holds the sections of this invocation, all of them, once each
\* and in order, and nothing else.
CompleteArtifact ==
    /\ file # <<>>
    /\ [i \in 1..Len(file[1]) |-> file[1][i].name]
          = ExpectedSections(args.gym_mode)
    /\ \A i \in 1..Len(file[1]) : file[1][i].gen = "current"

\* main() returned 0 from its last statement: a run that generated.
Generated ==
    /\ pc = "exited"
    /\ exit_status = <<0>>
    /\ output_config_file # <<>>
    /\ ~args.validate_only

(***************************************************************************)
(* C4.                                                                     *)
(***************************************************************************)
HardValidationErrors ==
    {"argparse", "template_error", "scaling_error", "validation_error",
     "filename_error", "invalid_name"}

\* C4: a run that ends with an unknown-template, scaling, date/time, count,
\* cash or filename error has, at no point, removed the file it found at
\* the target path or appended a section.
C4_AbortBeforeMutation ==
    (pc = "exited" /\ error \in HardValidationErrors) => ArtifactUntouched

\* A run that found a file at the target path and ended with a
\* validation error.
C4_Witness ==
    /\ pc = "exited"
    /\ error = "validation_error"
    /\ found # <<>>
    /\ file = found

(***************************************************************************)
(* C5.                                                                     *)
(***************************************************************************)
\* The values a template gives a market parameter.
TemplateValues(param) ==
    {RESEARCH_TEMPLATES[t].market_params[param] :
        t \in {u \in TemplateNames :
                 param \in DOMAIN RESEARCH_TEMPLATES[u].market_params}}

\* The dates and times that a command line can give, leave to their
\* defaults or take from a template, and what the parsers and the
\* validators make of each.
MarketDates ==
    OptionValues("market_date") \cup {DEFAULT_MARKET_DATE}
    \cup TemplateValues("market_date")

MarketTimes ==
    OptionValues("market_open") \cup OptionValues("market_close")
    \cup {DEFAULT_MARKET_OPEN, DEFAULT_MARKET_CLOSE}
    \cup TemplateValues("market_open") \cup TemplateValues("market_close")

ParsedDates == [s \in MarketDates |-> ParseDate(s)]

ParsedTimes == [s \in MarketTimes |-> ParseTime(s)]

ValidatedDates == [s \in MarketDates |-> validate_market_date(s)]

ValidatedTimes == [s \in MarketTimes |-> validate_market_time(s, "")]

\* The conditions C5 lists, on the scaling factor given and the resolved
\* values.
HardFailure(a) ==
    \/ a.agents_scale[1] <= 0
    \/ ParsedDates[a.market_date] = <<>>
    \/ /\ ParsedDates[a.market_date] # <<>>
       /\ ParsedDates[a.market_date][1].year \notin 1990..(CurrentYear + 1)
    \/ ParsedTimes[a.market_open] = <<>>
    \/ ParsedTimes[a.market_close] = <<>>
    \/ \E t \in AgentTypeSet : a[t] < 0
    \/ a.starting_cash < 0

\* The run went past the informational and placeholder modes.
Resolving ==
    /\ args # <<>>
    /\ ~args.list_templates
    /\ args.template_info = <<>>
    /\ ~args.batch_mode
    /\ ~args.gui

GenerationLabels ==
    {"clear_existing", "imports", "config", "oracle", "agents", "kernel", "gym"}

\* C5: a run that resolves its inputs ends with a scaling or validation
\* error exactly when the scaling factor is <= 0, the date fails the parse
\* or its year is outside [1990, current year + 1], a time fails the parse,
\* a resolved count is negative or the cash is negative; such a run ends
\* with status 1 without having touched the artifact, and generation is
\* never entered with one of these conditions.
C5_HardFailuresExactly ==
    /\ (pc = "exited" /\ Resolving) =>
          (error \in {"scaling_error", "validation_error"}
              <=> HardFailure(args))
    /\ (pc = "exited" /\ error \in {"scaling_error", "validation_error"}) =>
          (exit_status = <<1>> /\ ArtifactUntouched)
    /\ (pc \in GenerationLabels) => ~HardFailure(args)

\* A run stopped by the date 1989-12-31: it parses, its year is below 1990.
C5_Witness ==
    /\ pc = "exited"
    /\ error = "validation_error"
    /\ ParseDate(args.market_date) # <<>>
    /\ ParseDate(args.market_date)[1].year = 1989
    /\ checked[Len(checked)] = "market_date"

(***************************************************************************)
(* C6.                                                                     *)
(***************************************************************************)
AgentLabel ==
    [market_makers |-> "Market Maker agents",
     adaptive_market_makers |-> "Adaptive Market Maker agents",
     zero_intelligence |-> "Zero Intelligence agents",
     noise_agents |-> "Noise agents",
     value_agents |-> "Value agents",
     momentum_agents |-> "Momentum agents"]

Hour(time_str) == ParsedTimes[time_str][1].hour

\* The warning conditions C6 lists, on the scaling factor given and the
\* resolved values.
WarningConditions(a) ==
    (IF Hour(a.market_open) \notin 4..22
     THEN {<<"unusual", "market open time">>} ELSE {})
    \cup (IF Hour(a.market_close) \notin 4..22
          THEN {<<"unusual", "market close time">>} ELSE {})
    \cup {<<"large", AgentLabel[t]>> : t \in {u \in AgentTypeSet : a[u] > 10000}}
    \cup (IF a.starting_cash = 0 THEN {<<"zero", "starting_cash">>} ELSE {})
    \cup (IF a.starting_cash > 0 /\ a.starting_cash < LOW_CASH
          THEN {<<"low", "starting_cash">>} ELSE {})
    \cup (IF a.starting_cash > VERY_HIGH_CASH
          THEN {<<"high", "starting_cash">>} ELSE {})
    \cup (IF a.agents_scale[1] > 0 /\ a.agents_scale[1] > 10 * a.agents_scale[2]
          THEN {<<"large", "agents_scale">>} ELSE {})
    \cup (IF a.agents_scale[1] > 0 /\ 100 * a.agents_scale[1] < a.agents_scale[2]
          THEN {<<"small", "agents_scale">>} ELSE {})

OtherFailures == {"filename_error", "invalid_name", "write_error"}

\* At the end of a run that resolved inputs free of the hard failures:
\* no validator stopped it, the warnings logged are those of the listed
\* conditions, and, when there are some, a file name is valid, no write
\* fails and generation was asked for, the complete artifact is written
\* and the status is 0.
WarningsOnlyOutcome ==
    (pc = "exited" /\ Resolving /\ ~HardFailure(args)) =>
        /\ error \notin {"scaling_error", "validation_error"}
        /\ warnings = WarningConditions(args)
        /\ (/\ WarningConditions(args) # {}
            /\ ~args.validate_only
            /\ error \notin OtherFailures)
           => (Generated /\ CompleteArtifact)

\* The validators hand back what they were given: the scaling check leaves
\* the factor, and the 'Validate all inputs' block every argument, as it
\* was.
ValidatorsKeepValues ==
    /\ pc = "apply_scaling" => args'.agents_scale = args.agents_scale
    /\ pc = "validate_inputs" => args' = args

BothModes == Given(argv, "gym_mode") /\ Given(argv, "batch_mode")

\* C7 (as stated): a run asked for --gym-mode and --batch-mode together
\* ends, whatever else is on the command line, with the mode-conflict
\* error and a non-zero status, no file removed or written.
C7_ConflictAlwaysRejected ==
    (pc = "exited" /\ BothModes) =>
        /\ error = "mode_conflict"
        /\ exit_status # <<0>>
        /\ ArtifactUntouched

InfoRequested ==
    Given(argv, "list_templates") \/ Given(argv, "template_info")

\* C7 (amended): a run asked for --gym-mode and --batch-mode together
\* removes and writes no file; on a command line the parser accepts it
\* ends with the mode-conflict error and status 1 unless --list-templates
\* or --template-info is given too, and then it ends with status 0 and
\* without the conflict being reported.
C7_ConflictRejectedAfterInfo ==
    (pc = "exited" /\ BothModes) =>
        /\ ArtifactUntouched
        /\ (parse_args_accepts(argv) /\ ~InfoRequested) =>
              (error = "mode_conflict" /\ exit_status = <<1>>)
        /\ (parse_args_accepts(argv) /\ InfoRequested) =>
              (error # "mode_conflict" /\ exit_status = <<0>>)

\* The conflict reported with --validate-only and --gui on the command
\* line as well.
C7_Witness ==
    /\ pc = "exited"
    /\ BothModes
    /\ Given(argv, "validate_only")
    /\ Given(argv, "gui")
    /\ error = "mode_conflict"
    /\ exit_status = <<1>>

(***************************************************************************)
(* C8.                                                                     *)
(***************************************************************************)
\* C8: the sections an invocation appends are, at every moment, the first
\* ones of imports, config (the bootstrap), oracle, agents, kernel and,
\* with --gym-mode only, gym; the file holds them as appended; a run that
\* generated has appended the whole sequence.
C8_SectionsInOrder ==
    /\ Appended # <<>> =>
          /\ IsPrefix(Appended, ExpectedSections(args.gym_mode))
          /\ file # <<>>
          /\ [i \in 1..Len(file[1]) |-> file[1][i].name] = Appended
    /\ Generated => Appended = ExpectedSections(args.gym_mode)

\* A --gym-mode run that appended the six sections.
C8_Witness ==
    /\ Generated
    /\ args.gym_mode
    /\ Appended = <<"imports", "config", "oracle", "agents", "kernel", "gym">>

(***************************************************************************)
(* C9.                                                                     *)
(***************************************************************************)
\* The file found at the target path was removed before any append.
RemovedFirst ==
    \E i \in 1..Len(effects) :
        /\ effects[i] = "remove"
        /\ \A j \in 1..(i - 1) : ~IsSection(effects[j])

\* C9: an invocation that found a file at the target path removes it
\* before its first append, and a run that generated leaves a file that
\* holds each of its own sections once and nothing of an earlier run.
C9_RerunReplaces ==
    /\ (found # <<>> /\ Appended # <<>>) => RemovedFirst
    /\ Generated => CompleteArtifact

\* The second of two successive successful generation runs on one path.
C9_Witness ==
    /\ Generated
    /\ found = PreviousFile(TRUE)
    /\ RemovedFirst
    /\ CompleteArtifact

(***************************************************************************)
(* C10.                                                                    *)
(***************************************************************************)
\* The identifiers the generated script gives each block when it runs:
\* 'range(agent_count, agent_count + n)' then 'agent_count += n'.
RECURSIVE AssignIds(_, _)
AssignIds(blocks, agent_count) ==
    IF blocks = <<>> THEN <<>>
    ELSE <<[type |-> Head(blocks).type,
            first |-> agent_count,
            last |-> agent_count + Head(blocks).count - 1]>>
         \o AssignIds(Tail(blocks), agent_count + Head(blocks).count)

\* The population of a generated agents section: the Exchange agent, then
\* the blocks.
Population(section) ==
    <<[type |-> section.exchange.type,
       first |-> section.exchange.id,
       last |-> section.exchange.id]>>
    \o AssignIds(section.blocks, section.agent_count)

WellNumbered(pop, N) ==
    /\ pop[1] = [type |-> "ExchangeAgent", first |-> 0, last |-> 0]
    /\ \A i \in 2..Len(pop) :
          /\ pop[i].type # "ExchangeAgent"
          /\ pop[i].first <= pop[i].last
          /\ pop[i].first = pop[i - 1].last + 1
    /\ pop[Len(pop)].last = N
    /\ \A i, j \in 1..Len(pop) :
          i # j => (pop[i].type # pop[j].type
                    /\ (pop[i].last < pop[j].first
                        \/ pop[j].last < pop[i].first))

\* C10: in every agents section written, the Exchange agent comes first,
\* alone of its type, with identifier 0; the other agents are numbered
\* 1..N without gap or repeat, N the sum of the six resolved counts, and
\* each type is one block of consecutive identifiers.
C10_PopulationIds ==
    (file # <<>>) =>
        \A i \in 1..Len(file[1]) :
            file[1][i].name = "agents" =>
                WellNumbered(Population(file[1][i]), TotalAgents(args))

\* Template behavioral: six blocks, 430 agents after the Exchange agent.
C10_Witness ==
    /\ Generated
    /\ Len(file[1][4].blocks) = 6
    /\ Population(file[1][4])[7].last = 430
    /\ TotalAgents(args) = 430

(***************************************************************************)
(* C11.                                                                    *)
(***************************************************************************)
AgentClass ==
    [market_makers |-> "MarketMakerAgent",
     adaptive_market_makers |-> "AdaptiveMarketMakerAgent",
     zero_intelligence |-> "ZeroIntelligenceAgent",
     noise_agents |-> "NoiseAgent",
     value_agents |-> "ValueAgent",
     momentum_agents |-> "MomentumAgent"]

\* The blocks of a population that takes the types in `order` and skips
\* those whose count in `a` is not positive.
RECURSIVE BlocksInOrder(_, _)
BlocksInOrder(order, a) ==
    IF order = <<>> THEN <<>>
    ELSE (IF a[Head(order)] > 0
          THEN <<[type |-> AgentClass[Head(order)], count |-> a[Head(order)]]>>
          ELSE <<>>)
         \o BlocksInOrder(Tail(order), a)

\* The identifier ranges of such a population, counted from 1.
RangesInOrder(order, a) == AssignIds(BlocksInOrder(order, a), 1)

\* The agents sections the file holds.
AgentsSections ==
    IF file = <<>> THEN {}
    ELSE {file[1][i] : i \in {j \in 1..Len(file[1]) : file[1][j].name = "agents"}}

StatedOrder ==
    <<"market_makers", "adaptive_market_makers", "zero_intelligence",
      "noise_agents", "value_agents", "momentum_agents">>

EmittedOrder ==
    <<"market_makers", "zero_intelligence", "noise_agents", "value_agents",
      "momentum_agents", "adaptive_market_makers">>

\* C11 (as stated): after the Exchange agent the blocks, and so the
\* identifier ranges, come in the order market maker, adaptive market
\* maker, zero-intelligence, noise, value, momentum, the types with a
\* resolved count of 0 left out.
C11_StatedBlockOrder ==
    \A section \in AgentsSections :
        /\ section.blocks = BlocksInOrder(StatedOrder, args)
        /\ Tail(Population(section)) = RangesInOrder(StatedOrder, args)

\* C11 (amended): after the Exchange agent the blocks, and so the
\* identifier ranges, come in the order market maker, zero-intelligence,
\* noise, value, momentum, adaptive market maker, the types with a
\* resolved count of 0 left out.
C11_EmittedBlockOrder ==
    \A section \in AgentsSections :
        /\ section.blocks = BlocksInOrder(EmittedOrder, args)
        /\ Tail(Population(section)) = RangesInOrder(EmittedOrder, args)

\* Template behavioral: 3 market makers (1..3), 100 zero-intelligence
\* agents (4..103), 200 noise agents (104..303), 50 value agents
\* (304..353), 75 momentum agents (354..428) and, last, 2 adaptive market
\* makers (429..430).
C11_Witness ==
    /\ AgentsSections # {}
    /\ \A section \in AgentsSections :
          Tail(Population(section)) =
             <<[type |-> "MarketMakerAgent", first |-> 1, last |-> 3],
               [type |-> "ZeroIntelligenceAgent", first |-> 4, last |-> 103],
               [type |-> "NoiseAgent", first |-> 104, last |-> 303],
               [type |-> "ValueAgent", first |-> 304, last |-> 353],
               [type |-> "MomentumAgent", first |-> 354, last |-> 428],
               [type |-> "AdaptiveMarketMakerAgent", first |-> 429,
                last |-> 430]>>

(***************************************************************************)
(* C12.                                                                    *)
(***************************************************************************)
\* What the run reported is a hard failure of the taxonomy.
TaxonomyFailures ==
    {"argparse", "template_error", "template_not_found", "scaling_error",
     "validation_error", "filename_error", "invalid_name", "write_error",
     "mode_conflict"}

\* C12 (as stated): a run that reports an unknown template name, a
\* validation error, a filename error, a write error or a mode conflict
\* ends with a non-zero status; status 0 means that none was reported.
C12_FailureExitsNonZero ==
    (pc = "exited" /\ error \in TaxonomyFailures) => exit_status # <<0>>

(***************************************************************************)
(* C13.                                                                    *)
(***************************************************************************)
InfoOrPlaceholderFlags ==
    {"list_templates", "template_info", "validate_only", "batch_mode", "gui"}

\* The command line asks for a generation from a template it names, under
\* a configuration name it gives.
GenerationRequest ==
    /\ Given(argv, "template")
    /\ argv["template"] \in TemplateNames
    /\ Given(argv, "config_name")
    /\ \A o \in InfoOrPlaceholderFlags : ~Given(argv, o)

NameChars == AlnumChars \cup {"_", "-"} \cup SanitizedChars

\* A configuration name the program accepts: at most MAX_FILENAME_LENGTH
\* characters once stripped, none of them outside the letters, digits,
\* '_', '-' and the characters that are replaced.
ValidName(name) ==
    /\ Len(Strip(name)) \in 1..MAX_FILENAME_LENGTH
    /\ \A i \in 1..Len(Strip(name)) : Strip(name)[i] \in NameChars

\* '<sanitized config name>.py'
ArtifactName(name) == ReSub(Strip(name)) \o DOT_PY

\* At the end of a run on such a command line with valid inputs, unless a
\* write failed: status 0, the output path is the sanitized name with
\* '.py' under the output directory, the directory exists, and the run
\* appended to that file all the sections, which is what the file holds.
GenerationOutcome ==
    (/\ pc = "exited"
     /\ GenerationRequest
     /\ ~HardFailure(args)
     /\ ValidName(argv["config_name"])
     /\ error # "write_error")
    => /\ exit_status = <<0>>
       /\ error = ""
       /\ output_config_file =
             <<[dir |-> Opt(argv, "output_dir", "."),
                name |-> ArtifactName(argv["config_name"])]>>
       /\ dir_exists
       /\ Appended = ExpectedSections(args.gym_mode)
       /\ CompleteArtifact

\* How far main() has got.
Position ==
    [parse_args |-> 1, info_requests |-> 2, special_modes |-> 3,
     apply_template |-> 4, apply_scaling |-> 5, validate_inputs |-> 6,
     set_filename |-> 7, set_output_path |-> 8, validate_only |-> 9,
     clear_existing |-> 10, imports |-> 11, config |-> 12, oracle |-> 13,
     agents |-> 14, kernel |-> 15, gym |-> 16, exited |-> 17,
     terminated |-> 18]

\* Until it exits the run has a next statement to execute ...
CanProceed ==
    (GenerationRequest /\ Position[pc] < Position["exited"]) => ENABLED Next

\* ... and every statement takes it nearer to the exit.
Proceeds ==
    (GenerationRequest /\ Position[pc] < Position["exited"])
    => (Position[pc'] > Position[pc] /\ UNCHANGED argv)

\* C13: a generation run with valid inputs (a template and a config name,
\* no info, validate-only, batch or gui flag) terminates -- it is never
\* stuck and each of its steps brings it nearer to the exit; unless a
\* write fails it ends with status 0 and leaves one artifact, at the
\* sanitized config name with '.py' under the output directory, holding
\* all the sections.
C13_GenerationCompletes ==
    /\ []GenerationOutcome
    /\ []CanProceed
    /\ [][Proceeds]_vars

\* --template minimal -f " my cfg": my_cfg.py written in full.
C13_Witness ==
    /\ pc = "exited"
    /\ exit_status = <<0>>
    /\ argv = ("template" :> "minimal") @@ ("config_name" :> NAME_SPACED)
    /\ output_config_file =
          <<[dir |-> ".",
             name |-> <<"m", "y", "_", "c", "f", "g", ".", "p", "y">>]>>
    /\ CompleteArtifact

(***************************************************************************)
(* C14.                                                                    *)
(***************************************************************************)
Resolved(a) == CHOOSE r \in {[f \in ResolvedFields |-> v[f]] : v \in {a}} : TRUE

\* C14: whatever the argument set -- as parsed, with a template applied or
\* scaled -- and whatever the template, applying the template twice gives
\* the counts and market parameters that applying it once gives.
C14_ResolutionIdempotent ==
    (pc \in {"info_requests", "apply_scaling", "validate_inputs"}) =>
        \A template_name \in TemplateNames :
            \E once \in {apply_template_to_args(template_name, args)} :
                \E twice \in {apply_template_to_args(template_name, once)} :
                    Resolved(twice) = Resolved(once)

\* The template of the command line has just changed the arguments, and
\* applying it again changes nothing.
C14_Witness ==
    /\ TemplateApplied
    /\ Resolved(args) # Resolved(parse_args(argv))
    /\ Resolved(apply_template_to_args(argv["template"], args)) = Resolved(args)

(***************************************************************************)
(* C15.                                                                    *)
(***************************************************************************)
ScalingFrame == MarketFields \cup {"random_seed"}

\* C15: the scaling step, whatever the factor, leaves symbol, starting
\* cash, market date, market open, market close and seed as they were.
C15_ScalingFrame ==
    [][pc = "apply_scaling" =>
          \A f \in ScalingFrame : args'[f] = args[f]]_vars

\* Template rmsc04 at --agents-scale 0.5: the counts are halved, the
\* template's symbol, cash, date and times are there, no seed.
C15_Witness ==
    /\ pc = "validate_inputs"
    /\ argv = ("template" :> "rmsc04") @@ ("agents_scale" :> <<1, 2>>)
    /\ args.noise_agents = 500
    /\ args.value_agents = 51
    /\ args.symbol = "ABM"
    /\ args.starting_cash = DEFAULT_STARTING_CASH
    /\ args.market_date = DATE_2021_02_05
    /\ args.market_open = TIME_09_30_00
    /\ args.market_close = TIME_10_00_00
    /\ args.random_seed = <<>>

(***************************************************************************)
(* C16.                                                                    *)
(***************************************************************************)
\* C16: once a section has been written, the six resolved counts are
\* >= 0, the starting cash is >= 0 and the scaling factor is > 0.
C16_WrittenImpliesValid ==
    (Appended # <<>>) =>
        /\ \A t \in CountFields : args[t] >= 0
        /\ args.starting_cash >= 0
        /\ args.agents_scale[1] > 0 /\ args.agents_scale[2] > 0

\* Sections written with a cash of 0 and the factor 1/256.
C16_Witness ==
    /\ Appended # <<>>
    /\ args.starting_cash = 0
    /\ args.agents_scale = <<1, 256>>

(***************************************************************************)
(* C17.                                                                    *)
(***************************************************************************)
\* The arguments as they were when the scaling step was reached.
BeforeScaling(cl) ==
    IF Given(cl, "template") /\ parse_args_accepts(cl)
    THEN apply_template_to_args(cl["template"], parse_args(cl))
    ELSE parse_args(cl)

\* The types that a positive factor took from a positive count to 0.
FlooredToZero ==
    IF args.agents_scale[1] <= 0 \/ \A t \in CountFields : args[t] # 0
    THEN {}
    ELSE UNION {{t \in CountFields : before[t] > 0 /\ args[t] = 0} :
                  before \in {BeforeScaling(argv)}}

\* C17: when a positive factor has floored a count to 0 the run is not
\* stopped for it -- with nothing else wrong it generates and returns
\* 0 --, the population written has no block of that type, and the types
\* with a positive count have their blocks as usual.
C17_FlooredTypeDropped ==
    (pc = "exited" /\ Resolving /\ FlooredToZero # {}) =>
        /\ (~HardFailure(args) /\ ~args.validate_only
            /\ error \notin OtherFailures) => Generated
        /\ \A section \in AgentsSections :
              /\ \A t \in FlooredToZero :
                    \A i \in 1..Len(section.blocks) :
                        section.blocks[i].type # AgentClass[t]
              /\ section.blocks = BlocksInOrder(EmittedOrder, args)

\* Template rmsc03 at --agents-scale 1/256: of 5000 noise agents 19 are
\* left, the 100 value agents, 25 momentum agents and 2 adaptive market
\* makers are gone, and the file is written.
C17_Witness ==
    /\ Generated
    /\ argv = ("template" :> "rmsc03") @@ ("agents_scale" :> <<1, 256>>)
    /\ FlooredToZero =
          {"value_agents", "momentum_agents", "adaptive_market_makers"}
    /\ \A section \in AgentsSections :
          section.blocks = <<[type |-> "NoiseAgent", count |-> 19]>>

(***************************************************************************)
(* C18.                                                                    *)
(***************************************************************************)
Sections(section_name) ==
    IF file = <<>> THEN {}
    ELSE {file[1][i] :
            i \in {j \in 1..Len(file[1]) : file[1][j].name = section_name}}

\* C18: template minimal, nothing overridden, no scaling: the population
\* written is the Exchange agent with identifier 0, 1 market maker, 10
\* zero-intelligence and 5 noise agents, no value and no momentum agent,
\* with a starting cash of 1000000 and the symbol TEST.
C18_MinimalEndToEnd ==
    (/\ Given(argv, "template") /\ argv["template"] = "minimal"
     /\ NoOverrides(argv)
     /\ ~Given(argv, "agents_scale"))
    => /\ \A section \in AgentsSections :
             /\ Population(section) =
                   <<[type |-> "ExchangeAgent", first |-> 0, last |-> 0],
                     [type |-> "MarketMakerAgent", first |-> 1, last |-> 1],
                     [type |-> "ZeroIntelligenceAgent", first |-> 2,
                      last |-> 11],
                     [type |-> "NoiseAgent", first |-> 12, last |-> 16]>>
             /\ section.total_trading_agents = 16
             /\ section.starting_cash = 1000000 \div CashUnit
       /\ \A section \in Sections("oracle") : section.symbol = "TEST"
       /\ Generated => (AgentsSections # {} /\ Sections("oracle") # {})

C18_Witness ==
    /\ Generated
    /\ argv = ("template" :> "minimal")
    /\ \E section \in AgentsSections : Len(section.blocks) = 3
    /\ \E section \in Sections("oracle") : section.symbol = "TEST"

(***************************************************************************)
(* C19.                                                                    *)
(***************************************************************************)
\* C19: template rmsc03 at --agents-scale 0.1, the two counts not given on
\* the command line: once the scaling step is done the noise count is 500
\* and the momentum count is 2.
C19_Rmsc03Tenth ==
    (/\ \E i \in 1..Len(checked) : checked[i] = "agents_scale"
     /\ pc # "apply_scaling"
     /\ Given(argv, "template") /\ argv["template"] = "rmsc03"
     /\ Given(argv, "agents_scale") /\ argv["agents_scale"] = <<1, 10>>
     /\ ~Given(argv, "noise_agents")
     /\ ~Given(argv, "momentum_agents"))
    => (args.noise_agents = 500 /\ args.momentum_agents = 2)

C19_Witness ==
    /\ Generated
    /\ argv = ("template" :> "rmsc03") @@ ("agents_scale" :> <<1, 10>>)
    /\ \E section \in AgentsSections :
          /\ section.blocks[1] = [type |-> "NoiseAgent", count |-> 500]
          /\ section.blocks[3] = [type |-> "MomentumAgent", count |-> 2]

(***************************************************************************)
(* C20.                                                                    *)
(***************************************************************************)
\* C20 (as stated): a run with --validate-only that resolves its inputs
\* does nothing to the file system -- no removal, no append, no file, no
\* directory --, and ends with status 0 if the inputs are valid and with
\* another status if not.
C20_ValidateOnlyPersistsNothing ==
    (pc = "exited" /\ Resolving /\ args.validate_only) =>
        /\ ArtifactUntouched
        /\ effects = <<>>
        /\ exit_status = <<0>> <=> error = ""

(***************************************************************************)
(* C21.                                                                    *)
(***************************************************************************)
\* The names of the sections the file holds, in order.
FileSections ==
    IF file = <<>> THEN <<>> ELSE [i \in 1..Len(file[1]) |-> file[1][i].name]

\* The step at which an append fails: the run ends there with status 1,
\* and the file is left as it was.
WriteFailureStep ==
    (error = "" /\ error' = "write_error")
    => /\ pc \in GenerationLabels
       /\ pc' = "exited"
       /\ exit_status' = <<1>>
       /\ file' = file
       /\ effects' = effects

\* A run that ended on a failed append: its status is not 0, the sections
\* it appended are the first ones of the sequence, not all of them, and
\* they are what the file holds.
WriteFailureOutcome ==
    (pc = "exited" /\ error = "write_error")
    => /\ exit_status # <<0>>
       /\ IsPrefix(Appended, ExpectedSections(args.gym_mode))
       /\ Appended # ExpectedSections(args.gym_mode)
       /\ FileSections = Appended
       /\ \A i \in 1..Len(FileSections) : file[1][i].gen = "current"

\* C21: when an append fails the generation aborts -- the run exits with a
\* non-zero status at that step, no later section is written, and the
\* sections appended before stay in the file.
C21_WriteFailureAborts ==
    /\ []WriteFailureOutcome
    /\ [][WriteFailureStep]_vars

\* The append of the agents section failed: imports, config and oracle
\* are in the file.
C21_Witness ==
    /\ pc = "exited"
    /\ error = "write_error"
    /\ exit_status = <<1>>
    /\ FileSections = <<"imports", "config", "oracle">>

(***************************************************************************)
(* C22.                                                                    *)
(***************************************************************************)
\* The sections main() has the generators write for the arguments a and
\* the path, when the clock reads `now` in the header and `time` in the
\* bootstrap section.
Artifact(a, path, now, time) ==
    <<generate_imports_section(path, now),
      generate_config_section(a.random_seed, time),
      generate_oracle_section(a.market_date, a.market_open, a.market_close,
                              a.symbol),
      generate_agents_section(a.starting_cash, a.market_makers,
                              a.adaptive_market_makers, a.zero_intelligence,
                              a.noise_agents, a.value_agents,
                              a.momentum_agents),
      generate_kernel_section>>
    \o (IF a.gym_mode THEN <<generate_gym_config_section>> ELSE <<>>)

\* The sections with the generation timestamp of the header blanked.
WithoutTimestamp(sections) ==
    [i \in 1..Len(sections) |->
        IF sections[i].name = "imports"
        THEN [sections[i] EXCEPT !.generated_on = <<>>]
        ELSE sections[i]]

\* The sections with the embedded seed blanked.
WithoutSeed(sections) ==
    [i \in 1..Len(sections) |->
        IF sections[i].name = "config"
        THEN [sections[i] EXCEPT !.seed = <<>>]
        ELSE sections[i]]

\* The artifacts of the runs on the same inputs as this one, whatever
\* their clocks read.
SameInputArtifacts ==
    {Artifact(args, output_config_file[1], now, time) :
        now \in Instants, time \in MicrosecondClock}

\* C22 (as stated): the artifact of a run that generated and the artifact
\* of any other run on the same inputs, with or without a seed, are the
\* same but for the timestamp of the header.
C22_SameButTimestamp ==
    Generated =>
        /\ file[1] \in SameInputArtifacts
        /\ \A other \in SameInputArtifacts :
              WithoutTimestamp(other) = WithoutTimestamp(file[1])

\* C22: for a run that generated under a config name it was given: with a
\* seed given, its artifact and the artifact of any other run on the same
\* inputs are the same but for the timestamp of the header; with no seed
\* given they are the same but for that timestamp and the seed embedded in
\* the bootstrap section.
C22_SameButTimestampAndClockSeed ==
    (Generated /\ Given(argv, "config_name")) =>
        /\ file[1] \in SameInputArtifacts
        /\ \A other \in SameInputArtifacts :
              IF args.random_seed # <<>>
              THEN WithoutTimestamp(other) = WithoutTimestamp(file[1])
              ELSE WithoutSeed(WithoutTimestamp(other))
                      = WithoutSeed(WithoutTimestamp(file[1]))

\* A run with --random-seed 42 that wrote the later of the timestamps.
C22_Witness ==
    /\ Generated
    /\ Given(argv, "config_name")
    /\ args.random_seed = <<42>>
    /\ file[1][1].generated_on[6] = 1
    /\ file[1][2].seed = <<0, 42>>

(***************************************************************************)
(* C23.                                                                    *)
(***************************************************************************)
\* The value of agent_count once the generated script has run the blocks:
\* each block ends with 'agent_count += <count>'.
RECURSIVE FinalCount(_, _)
FinalCount(blocks, agent_count) ==
    IF blocks = <<>> THEN agent_count
    ELSE FinalCount(Tail(blocks), agent_count + Head(blocks).count)

\* The number of agents of a type that the blocks create.
RECURSIVE Instances(_, _)
Instances(blocks, type) ==
    IF blocks = <<>> THEN 0
    ELSE (IF Head(blocks).type = type THEN Head(blocks).count ELSE 0)
         + Instances(Tail(blocks), type)

\* C23: every agents section written creates, of each type, as many agents
\* as the resolved count; agent_count, the name whose value the kernel
\* section hands to the latency model, ends at 1 + the sum of the six
\* resolved counts, and the total_trading_agents written is that sum.
C23_PopulationTotals ==
    /\ \A section \in AgentsSections :
          /\ \A t \in AgentTypeSet :
                Instances(section.blocks, AgentClass[t]) = args[t]
          /\ FinalCount(section.blocks, section.agent_count)
                = 1 + TotalAgents(args)
          /\ section.total_trading_agents = TotalAgents(args)
    /\ (Sections("kernel") # {}) =>
          /\ LatencyAgents = "agent_count"
          /\ \E section \in AgentsSections : LatencyAgents \in Globals(section)

\* Template hft, nothing overridden: agent_count ends at 1141 for the
\* 1140 agents of the template, and the kernel section is written.
C23_Witness ==
    /\ Generated
    /\ Given(argv, "template") /\ argv["template"] = "hft"
    /\ Sections("kernel") # {}
    /\ \E section \in AgentsSections :
          /\ FinalCount(section.blocks, section.agent_count)
                = 1 + TotalAgents(args)
          /\ TotalAgents(args) > 100

(***************************************************************************)
(* C24.                                                                    *)
(***************************************************************************)
\* The names bound at module scope by the sections before the i-th.
GlobalsBefore(i) ==
    UNION {Globals(file[1][j]) : j \in 1..(i - 1)}

\* The names the Gym section of the file reads at module level and no
\* earlier section binds at module scope.
UndefinedGymNames ==
    UNION {GymReads \ GlobalsBefore(i) :
             i \in {j \in 1..Len(file[1]) : file[1][j].name = "gym"}}

\* C24 (as stated): in an artifact with the Gym section, every name that
\* section reads at module level -- the kernel start and stop times, the
\* agents, the latency model, the default computation delay, the oracle --
\* is bound at module scope by an earlier section.
C24_GymNamesDefined ==
    (Generated /\ args.gym_mode) => UndefinedGymNames = {}

(***************************************************************************)
(* C25.                                                                    *)
(***************************************************************************)
\* The integer a two-digit value stands for, when it fits.
Value(v) == v[1] * Base + v[2]

\* A two-digit value within 0 .. 2^32 - 2.
InSeedRange(v) ==
    /\ v[1] \in 0..(Base - 1)
    /\ v[2] \in 0..(Base - 1)
    /\ v # <<Base - 1, Base - 1>>

\* C25: the artifact has at most one bootstrap section; with --random-seed
\* n, n = 0 included, the seed it embeds is n; with no seed given the seed
\* it embeds is the remainder of one reading of the clock, a value within
\* 0 .. 2^32 - 2.
C25_BootstrapSeed ==
    (file # <<>> /\ ~IsPrevious(file)) =>
        /\ Cardinality({i \in 1..Len(file[1]) : file[1][i].name = "config"})
              <= 1
        /\ \A section \in Sections("config") :
              IF args.random_seed # <<>>
              THEN /\ section.seed[1] = 0
                   /\ Value(section.seed) = args.random_seed[1]
              ELSE /\ InSeedRange(section.seed)
                   /\ \E t \in MicrosecondClock : section.seed = TimeSeed(t)

\* A run without --random-seed that read the clock one microsecond before
\* a multiple of 2^32 - 1: the seed embedded is 2^32 - 2.
C25_Witness ==
    /\ Generated
    /\ args.random_seed = <<>>
    /\ \E section \in Sections("config") :
          section.seed = <<Base - 1, Base - 2>>

(***************************************************************************)
(* C26.                                                                    *)
(***************************************************************************)
\* C26 (as stated): whenever main() has accepted a config name, the name
\* validate_config_filename returned for it is accepted again and returned
\* as it is.
C26_ValidationIdempotent ==
    (output_config_file # <<>>) =>
        /\ validate_config_filename(args.config_name).value
              = <<output_config_file[1].name>>
        /\ ~validate_config_filename(<<output_config_file[1].name>>).raised
        /\ validate_config_filename(<<output_config_file[1].name>>).value
              = <<output_config_file[1].name>>

(***************************************************************************)
(* C27.                                                                    *)
(***************************************************************************)
\* The command line gives a negative count for some agent type.
NegativeCountGiven ==
    \E t \in AgentTypeSet : Given(argv, t) /\ argv[t] < 0

\* The scaling factor of the command line is positive (1.0 when absent).
PositiveScale ==
    Given(argv, "agents_scale") => argv["agents_scale"][1] > 0

\* C27 (as stated): a run that resolves its inputs, on a command line with
\* a negative count and a positive scaling factor, whatever the template,
\* ends with a validation failure and has neither removed nor written
\* anything at the target path.
C27_NegativeCountRejected ==
    (pc = "exited" /\ Resolving /\ NegativeCountGiven /\ PositiveScale) =>
        /\ error = "validation_error"
        /\ exit_status # <<0>>
        /\ ArtifactUntouched

(***************************************************************************)
(* C28.                                                                    *)
(***************************************************************************)
\* The checks of a run on the arguments a, in the order stated: the
\* template name when a template is named, the scaling factor when it is
\* not 1.0, then the date, the times, the six counts, the cash and the
\* filename.
StatedChecks(a) ==
    (IF a.template # <<>> THEN <<"template">> ELSE <<>>)
    \o (IF a.agents_scale[1] # a.agents_scale[2] THEN <<"agents_scale">>
        ELSE <<>>)
    \o <<"market_date", "market_open", "market_close", "market_makers",
         "adaptive_market_makers", "zero_intelligence", "noise_agents",
         "value_agents", "momentum_agents", "starting_cash", "filename">>

\* The check passes on the values of a.
CheckPasses(a, check) ==
    CASE check = "template" -> validate_template_name(a.template[1]).ok
      [] check = "agents_scale" -> validate_agents_scale(a.agents_scale).ok
      [] check = "market_date" -> ValidatedDates[a.market_date].ok
      [] check = "market_open" -> ValidatedTimes[a.market_open].ok
      [] check = "market_close" -> ValidatedTimes[a.market_close].ok
      [] check \in AgentTypeSet -> validate_agent_count(a[check], "").ok
      [] check = "starting_cash" -> validate_starting_cash(a.starting_cash).ok
      [] check = "filename" ->
            \E validated \in {validate_config_filename(a.config_name)} :
                ~validated.raised /\ validated.value # <<>>

CheckFailures ==
    {"template_error", "scaling_error", "validation_error", "filename_error",
     "invalid_name"}

\* C28: the checks a run has evaluated are always the first ones of the
\* stated order.  When the run has ended, all of them but the last passed
\* on the resolved values; the last one failed on them if the run reported
\* a check failure and passed otherwise; and a run that went on to bind the
\* output path evaluated them all.
C28_CheckOrder ==
    /\ (args # <<>>) =>
          \E stated \in {StatedChecks(args)} : IsPrefix(checked, stated)
    /\ (args = <<>>) => checked = <<>>
    /\ (pc = "exited" /\ args # <<>>) =>
          /\ \A i \in 1..(Len(checked) - 1) : CheckPasses(args, checked[i])
          /\ (error \in CheckFailures) =>
                /\ checked # <<>>
                /\ ~CheckPasses(args, checked[Len(checked)])
          /\ (error \notin CheckFailures /\ checked # <<>>) =>
                CheckPasses(args, checked[Len(checked)])
          /\ (output_config_file # <<>>) => checked = StatedChecks(args)

\* --agents-scale 16 -n -1: the run stops at the noise count, -16 once
\* scaled, the fourth of the six counts.
C28_Witness ==
    /\ pc = "exited"
    /\ error = "validation_error"
    /\ args.noise_agents = -16
    /\ checked = <<"agents_scale", "market_date", "market_open",
                   "market_close", "market_makers", "adaptive_market_makers",
                   "zero_intelligence", "noise_agents">>

(***************************************************************************)
(* C29.                                                                    *)
(***************************************************************************)
\* The command line was parsed and asks for an informational or a
\* placeholder mode.
InfoOrPlaceholderMode == args # <<>> /\ ~Resolving

\* C29: a run with --list-templates, --template-info, --batch-mode or
\* --gui never gets past the tests of these modes -- the arguments stay as
\* parsed (no template applied, no scaling), no check is evaluated, the
\* output path stays unbound and nothing is done to the file system --;
\* with --list-templates or --template-info it ends with status 0 and no
\* mode conflict reported, whatever the other flags; with --batch-mode and
\* neither of these nor --gym-mode it ends with status 0.
C29_ModesEndBeforeResolution ==
    InfoOrPlaceholderMode =>
        /\ pc \in {"info_requests", "special_modes", "exited"}
        /\ args = parse_args(argv)
        /\ checked = <<>>
        /\ warnings = {}
        /\ output_config_file = <<>>
        /\ effects = <<>>
        /\ ArtifactUntouched
        /\ (pc = "exited" /\ (args.list_templates \/ args.template_info # <<>>))
              => (exit_status = <<0>> /\ error # "mode_conflict")
        /\ (/\ pc = "exited"
            /\ ~args.list_templates /\ args.template_info = <<>>
            /\ args.batch_mode /\ ~args.gym_mode)
              => (exit_status = <<0>> /\ error = "")

\* --list-templates --template rmsc03, a file found at the target path:
\* the run ends with status 0, the counts are not those of the template
\* and the file is as it was found.
C29_Witness ==
    /\ pc = "exited"
    /\ exit_status = <<0>>
    /\ args # <<>>
    /\ args.list_templates
    /\ args.template = <<"rmsc03">>
    /\ args.noise_agents # RESEARCH_TEMPLATES["rmsc03"].agents.noise_agents
    /\ found # <<>>
    /\ file = found

====
